---- MODULE Spec2Model ----
(***************************************************************************)
(* Workflow automation and notification engine of the DQA dashboard.       *)
(*                                                                         *)
(* The storage collaborator (Supabase tables) is the db* variables.  The   *)
(* App component keeps its own copies of the collections (tasks,           *)
(* invoices, escalations, inventories), each delivered by its own          *)
(* subscription callback, and two effects run on them: the notification    *)
(* and detection effect and the automated task completion effect.  The     *)
(* handlers write whole records to storage, built from the local copies.   *)
(*                                                                         *)
(* A collection is a function from the ids present to the records.         *)
(***************************************************************************)
EXTENDS Integers, Sequences, FiniteSets, TLC

\* ------------------------------------------------------------------ bounds
MaxTasks == 1
MaxEsc == 2
MaxInv == 1
MaxItems == 2
MaxHist == 2
MaxIssued == 2
MaxNotes == 1

\* ------------------------------------------------------------ identifiers
None == "none"
Empty == << >>

UserRole == [m1 |-> "MANAGER", a1 |-> "AGENT", a2 |-> "AGENT"]
Users == DOMAIN UserRole
Role(u) == IF u \in Users THEN UserRole[u] ELSE None

UserTaskIds == {<<"t", n>> : n \in 1..MaxTasks}
InvIds == 1..MaxInv
CompanionId(i) == <<"task", i>>
ManagerTaskId(i) == <<"task-mgr", i>>
TaskIds == UserTaskIds \cup {CompanionId(i) : i \in InvIds} \cup {ManagerTaskId(i) : i \in InvIds}
EscIds == 1..MaxEsc
ItemIds == 1..MaxItems
FileId == "f1"

TaskStatus == {"TODO", "IN_PROGRESS", "ON_HOLD", "DONE"}
TaskType == {"AUGMENTING", "QA", "404_CHECK", "INVOICE_PROCESSING", "DATA_REFRESHER"}
InventoryStatus == {"PENDING", "ASSIGNED_AUGMENTATION", "AUGMENTED", "ASSIGNED_QA", "QA_COMPLETE"}

\* ------------------------------------------------------ collection helpers
Has(coll, id) == id \in DOMAIN coll

Upsert(coll, id, rec) ==
  [x \in DOMAIN coll \cup {id} |-> IF x = id THEN rec ELSE coll[x]]

Insert(coll, id, rec) ==
  IF id \in DOMAIN coll THEN coll ELSE Upsert(coll, id, rec)

Delete(coll, id) == [x \in DOMAIN coll \ {id} |-> coll[x]]

\* several whole-record writes, each keyed by the id of its record
UpsertAll(coll, writes) ==
  [x \in DOMAIN coll \cup DOMAIN writes |-> IF x \in DOMAIN writes THEN writes[x] ELSE coll[x]]

VARIABLES
  dbTasks, dbEscalations, dbInvoices, dbInventories,
  tasks, inventories, invoices, escalations,
  prevTasksRef, prevInvoicesRef, prevEscalationsRef, isFirstLoad,
  currentUser, modal, agentUploads,
  notifOut, autoOut, issued, created, lastOp

dbVars == <<dbTasks, dbEscalations, dbInvoices, dbInventories>>
localVars == <<tasks, inventories, invoices, escalations>>
refVars == <<prevTasksRef, prevInvoicesRef, prevEscalationsRef, isFirstLoad>>
vars == <<dbTasks, dbEscalations, dbInvoices, dbInventories,
          tasks, inventories, invoices, escalations,
          prevTasksRef, prevInvoicesRef, prevEscalationsRef, isFirstLoad,
          currentUser, modal, agentUploads, notifOut, autoOut, issued, created, lastOp>>
uiVars == <<modal, agentUploads>>
logVars == <<issued, created>>

\* --------------------------------------------- notification and detection
\* IsAudience without the assignee: only a manager is told
IsAudience_ManagerOnly(u, assigneeId) == Role(u) = "MANAGER"

IsAudience(u, assigneeId) == assigneeId = u \/ Role(u) = "MANAGER"

TaskNotifs(u, prevT, t) ==
  {<<"New Task Assigned", id>> :
      id \in {x \in DOMAIN t : ~Has(prevT, x) /\ IsAudience(u, t[x].assigneeId)}}
  \cup
  {<<IF t[id].status = "DONE" THEN "Task Completed" ELSE "Task Updated", id>> :
      id \in {x \in DOMAIN t : /\ Has(prevT, x)
                               /\ prevT[x].status # t[x].status
                               /\ IsAudience(u, t[x].assigneeId)}}

\* InvoiceCompletedEdge on the level: every snapshot holding the invoice
\* COMPLETED counts, whatever the previous one held
InvoiceCompletedEdge_Level(prevI, i, x) ==
  Has(prevI, x) /\ i[x].status = "COMPLETED"

InvoiceCompletedEdge(prevI, i, x) ==
  Has(prevI, x) /\ prevI[x].status # "COMPLETED" /\ i[x].status = "COMPLETED"

InvoiceNotifs(u, prevI, i) ==
  {<<"New Invoice Slot", id>> :
      id \in {x \in DOMAIN i : ~Has(prevI, x) /\ IsAudience(u, i[x].assigneeId)}}
  \cup
  {<<"Invoice Ready", id>> :
      id \in {x \in DOMAIN i : InvoiceCompletedEdge(prevI, i, x) /\ Role(u) = "MANAGER"}}
  \cup
  {<<"Invoice Status", id>> :
      id \in {x \in DOMAIN i : /\ Has(prevI, x)
                               /\ prevI[x].status # i[x].status
                               /\ i[x].status # "COMPLETED"
                               /\ IsAudience(u, i[x].assigneeId)}}

InvoiceSlack(u, prevI, i) ==
  {<<"Invoice Completed", id>> :
      id \in {x \in DOMAIN i : InvoiceCompletedEdge(prevI, i, x) /\ Role(u) = "MANAGER"}}

EscalationAudience(u, esc) == Role(u) = "MANAGER" \/ esc.agentId = u

EscalationNotifs(u, prevE, e) ==
  {<<"Escalation Raised", id>> :
      id \in {x \in DOMAIN e : ~Has(prevE, x) /\ EscalationAudience(u, e[x])}}
  \cup
  {<<"Escalation Update", id>> :
      id \in {x \in DOMAIN e : /\ Has(prevE, x)
                               /\ prevE[x].status # e[x].status
                               /\ EscalationAudience(u, e[x])}}
  \cup
  {<<"New Message", id>> :
      id \in {x \in DOMAIN e : /\ Has(prevE, x)
                               /\ prevE[x].status = e[x].status
                               /\ Len(e[x].history) > Len(prevE[x].history)
                               /\ e[x].history[Len(e[x].history)] # u}}

\* EscalationSlack testing the role of the raiser instead of the viewer's
EscalationSlack_RaiserRole(u, prevE, e) ==
  {<<"Escalation Raised", id>> :
      id \in {x \in DOMAIN e : /\ ~Has(prevE, x)
                               /\ EscalationAudience(u, e[x])
                               /\ Role(e[x].agentId) # "MANAGER"}}

EscalationSlack(u, prevE, e) ==
  {<<"Escalation Raised", id>> :
      id \in {x \in DOMAIN e : /\ ~Has(prevE, x)
                               /\ EscalationAudience(u, e[x])
                               /\ Role(u) # "MANAGER"}}

\* NotificationEffect without the first-load branch: the first snapshot is
\* compared with the empty refs like any other
NotificationEffect_NoFirstLoad(t, i, e, u) ==
  IF u = None
  THEN [notifs |-> {}, slack |-> {}, baseline |-> FALSE, viewer |-> u,
        prevT |-> prevTasksRef, prevI |-> prevInvoicesRef,
        prevE |-> prevEscalationsRef, first |-> isFirstLoad]
  ELSE [notifs |-> TaskNotifs(u, prevTasksRef, t)
                     \cup InvoiceNotifs(u, prevInvoicesRef, i)
                     \cup EscalationNotifs(u, prevEscalationsRef, e),
        slack |-> InvoiceSlack(u, prevInvoicesRef, i)
                     \cup EscalationSlack(u, prevEscalationsRef, e),
        baseline |-> isFirstLoad /\ (DOMAIN t # {} \/ DOMAIN i # {}), viewer |-> u,
        prevT |-> t, prevI |-> i, prevE |-> e, first |-> FALSE]

\* One run of the effect on collections t, i, e for viewer u: what it emits
\* and what it leaves in the refs.
NotificationEffect(t, i, e, u) ==
  IF isFirstLoad
  THEN IF DOMAIN t # {} \/ DOMAIN i # {}
       THEN [notifs |-> {}, slack |-> {}, baseline |-> TRUE, viewer |-> u,
             prevT |-> t, prevI |-> i, prevE |-> e, first |-> FALSE]
       ELSE [notifs |-> {}, slack |-> {}, baseline |-> FALSE, viewer |-> u,
             prevT |-> prevTasksRef, prevI |-> prevInvoicesRef,
             prevE |-> prevEscalationsRef, first |-> TRUE]
  ELSE IF u = None
       THEN [notifs |-> {}, slack |-> {}, baseline |-> FALSE, viewer |-> u,
             prevT |-> prevTasksRef, prevI |-> prevInvoicesRef,
             prevE |-> prevEscalationsRef, first |-> FALSE]
       ELSE [notifs |-> TaskNotifs(u, prevTasksRef, t)
                          \cup InvoiceNotifs(u, prevInvoicesRef, i)
                          \cup EscalationNotifs(u, prevEscalationsRef, e),
             slack |-> InvoiceSlack(u, prevInvoicesRef, i)
                          \cup EscalationSlack(u, prevEscalationsRef, e),
             baseline |-> FALSE, viewer |-> u,
             prevT |-> t, prevI |-> i, prevE |-> e, first |-> FALSE]

RunNotificationEffect(t, i, e, u) ==
  LET out == NotificationEffect(t, i, e, u) IN
  /\ prevTasksRef' = out.prevT
  /\ prevInvoicesRef' = out.prevI
  /\ prevEscalationsRef' = out.prevE
  /\ isFirstLoad' = out.first
  /\ notifOut' = [notifs |-> out.notifs, slack |-> out.slack,
                  baseline |-> out.baseline, viewer |-> out.viewer]

\* ------------------------------------------- automated task completion
\* hasActiveEscalation counting the CLOSED escalations too
hasActiveEscalation_AnyStatus(e, taskId) ==
  \E x \in DOMAIN e : e[x].taskId = taskId

hasActiveEscalation(e, taskId) ==
  \E x \in DOMAIN e : e[x].taskId = taskId /\ e[x].status # "CLOSED"

relevantItems(inv, task) ==
  IF Has(inv, task.inventoryFileId)
  THEN {it \in DOMAIN inv[task.inventoryFileId] : it \in task.inventoryItemIds}
  ELSE {}

\* itemComplete with the statuses of the two kinds of task exchanged
itemComplete_KindsSwapped(task, st) ==
  IF task.type # "QA" THEN st = "QA_COMPLETE"
  ELSE st = "AUGMENTED" \/ st = "QA_COMPLETE"

itemComplete(task, st) ==
  IF task.type = "QA" THEN st = "QA_COMPLETE"
  ELSE st = "AUGMENTED" \/ st = "QA_COMPLETE"

allItemsComplete(inv, task) ==
  \A it \in relevantItems(inv, task) : itemComplete(task, inv[task.inventoryFileId][it])

\* AutoComplete where only a PENDING escalation blocks the completion
AutoComplete_PendingOnly(t, inv, e) ==
  IF DOMAIN t = {} \/ DOMAIN inv = {} THEN {}
  ELSE {id \in DOMAIN t :
          /\ t[id].status # "DONE"
          /\ t[id].inventoryFileId # None
          /\ t[id].inventoryItemIds # {}
          /\ ~(\E x \in DOMAIN e : e[x].taskId = id /\ e[x].status = "PENDING")
          /\ Has(inv, t[id].inventoryFileId)
          /\ relevantItems(inv, t[id]) # {}
          /\ allItemsComplete(inv, t[id])}

\* the ids of the tasks the effect writes as DONE on collections t, inv, e
AutoComplete(t, inv, e) ==
  IF DOMAIN t = {} \/ DOMAIN inv = {} THEN {}
  ELSE {id \in DOMAIN t :
          /\ t[id].status # "DONE"
          /\ t[id].inventoryFileId # None
          /\ t[id].inventoryItemIds # {}
          /\ ~hasActiveEscalation(e, id)
          /\ Has(inv, t[id].inventoryFileId)
          /\ relevantItems(inv, t[id]) # {}
          /\ allItemsComplete(inv, t[id])}

AutoCompleteWrites(t, done) ==
  [id \in done |-> [t[id] EXCEPT !.status = "DONE", !.completedAt = TRUE]]

\* runs the effect and applies its writes on top of the storage content db
RunAutoComplete(t, inv, e, db) ==
  LET done == AutoComplete(t, inv, e) IN
  /\ autoOut' = done
  /\ dbTasks' = UpsertAll(db, AutoCompleteWrites(t, done))


Op(name) == [op |-> name]

\* ------------------------------------------------ subscription callbacks
\* setTasks: both effects depend on tasks
DeliverTasks ==
  /\ tasks' = dbTasks
  /\ RunNotificationEffect(tasks', invoices, escalations, currentUser)
  /\ RunAutoComplete(tasks', inventories, escalations, dbTasks)
  /\ lastOp' = Op("DeliverTasks")
  /\ UNCHANGED <<dbEscalations, dbInvoices, dbInventories, inventories, invoices,
                 escalations, currentUser, uiVars, logVars>>

\* setInventories: only the completion effect depends on inventories
DeliverInventories ==
  /\ inventories' = dbInventories
  /\ RunAutoComplete(tasks, inventories', escalations, dbTasks)
  /\ lastOp' = Op("DeliverInventories")
  /\ UNCHANGED <<dbEscalations, dbInvoices, dbInventories, tasks, invoices,
                 escalations, refVars, notifOut, currentUser, uiVars, logVars>>

\* setInvoices: only the notification effect depends on invoices
DeliverInvoices ==
  /\ invoices' = dbInvoices
  /\ RunNotificationEffect(tasks, invoices', escalations, currentUser)
  /\ lastOp' = Op("DeliverInvoices")
  /\ UNCHANGED <<dbVars, tasks, inventories, escalations, autoOut,
                 currentUser, uiVars, logVars>>

\* the open escalation modal follows the delivered collection: the task board
\* takes every fresh copy, the dashboard only one whose history differs
SyncModal(m, e) ==
  IF m = << >> \/ ~Has(e, m[1].id) THEN m
  ELSE IF m[1].view = "board" \/ e[m[1].id].history # m[1].esc.history
       THEN <<[m[1] EXCEPT !.esc = e[m[1].id]]>>
       ELSE m

\* setEscalations: both effects depend on escalations
DeliverEscalations ==
  /\ escalations' = dbEscalations
  /\ modal' = SyncModal(modal, escalations')
  /\ RunNotificationEffect(tasks, invoices, escalations', currentUser)
  /\ RunAutoComplete(tasks, inventories, escalations', dbTasks)
  /\ lastOp' = Op("DeliverEscalations")
  /\ UNCHANGED <<dbEscalations, dbInvoices, dbInventories, tasks, inventories,
                 invoices, currentUser, agentUploads, logVars>>

\* -------------------------------------------------------------- session
handleLoginSuccess(u) ==
  /\ currentUser = None
  /\ currentUser' = u
  /\ RunNotificationEffect(tasks, invoices, escalations, u)
  /\ lastOp' = Op("Login")
  /\ UNCHANGED <<dbVars, localVars, autoOut, uiVars, logVars>>

handleLogout ==
  /\ currentUser # None
  /\ currentUser' = None
  /\ modal' = << >>
  /\ agentUploads' = {}
  /\ RunNotificationEffect(tasks, invoices, escalations, None)
  /\ lastOp' = Op("Logout")
  /\ UNCHANGED <<dbVars, localVars, autoOut, logVars>>

\* ----------------------------------------------------------- escalations
canEditTask(u, task) == Role(u) = "MANAGER" \/ task.assigneeId = u

\* the escalate control of the task board: an agent who may edit the selected
\* task, while that task is not DONE
canEscalate(u, task) ==
  canEditTask(u, task) /\ Role(u) = "AGENT" /\ task.status # "DONE"

NextEscalationId == Cardinality(DOMAIN dbEscalations) + 1

handleEscalateTask(t) ==
  /\ currentUser # None
  /\ Has(tasks, t)
  /\ canEscalate(currentUser, tasks[t])
  /\ NextEscalationId <= MaxEsc
  /\ dbEscalations' = Upsert(dbEscalations, NextEscalationId,
                        [taskId |-> t, agentId |-> currentUser,
                         history |-> <<currentUser>>, status |-> "PENDING"])
  /\ dbTasks' = Upsert(dbTasks, t, [tasks[t] EXCEPT !.isEscalated = TRUE])
  /\ lastOp' = Op("EscalateTask")
  /\ UNCHANGED <<dbInvoices, dbInventories, localVars, refVars, currentUser,
                 uiVars, notifOut, autoOut, logVars>>

\* opening the thread of escalation e: the task board lists every escalation
\* of the selected task, the dashboard the non-CLOSED ones
OpenEscalation(e, view) ==
  /\ currentUser # None
  /\ Has(escalations, e)
  /\ view = "dashboard" => escalations[e].status # "CLOSED"
  /\ modal' = <<[id |-> e, view |-> view, esc |-> escalations[e]]>>
  /\ lastOp' = Op("OpenEscalation")
  /\ UNCHANGED <<dbVars, localVars, refVars, currentUser, agentUploads,
                 notifOut, autoOut, logVars>>

CloseModal ==
  /\ modal # << >>
  /\ modal' = << >>
  /\ lastOp' = Op("CloseModal")
  /\ UNCHANGED <<dbVars, localVars, refVars, currentUser, agentUploads,
                 notifOut, autoOut, logVars>>

newStatus(u) == IF Role(u) = "MANAGER" THEN "RESPONDED" ELSE "PENDING"

handleEscalationReply ==
  /\ currentUser # None
  /\ modal # << >>
  /\ modal[1].esc.status # "CLOSED"
  /\ Len(modal[1].esc.history) < MaxHist
  /\ dbEscalations' = Upsert(dbEscalations, modal[1].id,
                        [modal[1].esc EXCEPT !.history = Append(@, currentUser),
                                             !.status = newStatus(currentUser)])
  /\ lastOp' = Op("EscalationReply")
  /\ UNCHANGED <<dbTasks, dbInvoices, dbInventories, localVars, refVars,
                 currentUser, uiVars, notifOut, autoOut, logVars>>

\* canResolveClose without the test that a reply exists
canResolveClose_NoReplyTest(u, esc) ==
  esc.status # "CLOSED" /\ Role(u) = "AGENT"

\* the "Mark Resolved & Close" control of the thread
canResolveClose(u, esc) ==
  esc.status # "CLOSED" /\ Role(u) = "AGENT" /\ Len(esc.history) > 1

closeTaskWrites(t, esc) ==
  IF Has(t, esc.taskId)
  THEN [x \in {esc.taskId} |-> [t[esc.taskId] EXCEPT !.isEscalated = FALSE]]
  ELSE Empty

\* a close asked for on the open thread: applied when the control is there,
\* otherwise nothing is written
handleCloseEscalation ==
  /\ currentUser # None
  /\ modal # << >>
  /\ IF canResolveClose(currentUser, modal[1].esc)
     THEN /\ dbEscalations' = Upsert(dbEscalations, modal[1].id,
                                [modal[1].esc EXCEPT !.status = "CLOSED"])
          /\ dbTasks' = UpsertAll(dbTasks, closeTaskWrites(tasks, modal[1].esc))
          /\ modal' = << >>
          /\ lastOp' = Op("CloseEscalation")
     ELSE /\ UNCHANGED <<dbEscalations, dbTasks, modal>>
          /\ lastOp' = Op("CloseRejected")
  /\ UNCHANGED <<dbInvoices, dbInventories, localVars, refVars, currentUser,
                 agentUploads, notifOut, autoOut, logVars>>


\* ---------------------------------------------------------- initial states
MkTask(status, type, assigneeId, fileId, itemIds) ==
  [status |-> status, type |-> type, assigneeId |-> assigneeId,
   isEscalated |-> FALSE, completedAt |-> FALSE,
   inventoryFileId |-> fileId, inventoryItemIds |-> itemIds, notes |-> 0,
   dueDate |-> "default"]

\* the App component after its first render, nothing delivered yet; u is the
\* user of the stored session, None without one
AppInit(u) ==
  /\ tasks = Empty /\ inventories = Empty /\ invoices = Empty /\ escalations = Empty
  /\ prevTasksRef = Empty /\ prevInvoicesRef = Empty /\ prevEscalationsRef = Empty
  /\ isFirstLoad = TRUE
  /\ currentUser = u
  /\ modal = << >>
  /\ agentUploads = {}
  /\ notifOut = [notifs |-> {}, slack |-> {}, baseline |-> FALSE, viewer |-> None]
  /\ autoOut = {}
  /\ issued = [i \in InvIds |-> 0]
  /\ created = [inv |-> 0, task |-> 0]
  /\ lastOp = Op("Init")

Assignee(n) == IF n = 1 THEN "a1" ELSE "a2"

\* storage holding plain tasks, one per agent in turn, and no escalation yet
InitEscalation ==
  /\ AppInit(None)
  /\ dbTasks = [id \in UserTaskIds |->
                  MkTask("IN_PROGRESS", "404_CHECK", Assignee(id[2]), None, {})]
  /\ dbEscalations = Empty
  /\ dbInvoices = Empty
  /\ dbInventories = Empty

NextEscalation ==
  \/ DeliverTasks
  \/ DeliverEscalations
  \/ \E u \in Users : handleLoginSuccess(u)
  \/ handleLogout
  \/ \E t \in UserTaskIds : handleEscalateTask(t)
  \/ \E e \in EscIds, view \in {"board", "dashboard"} : OpenEscalation(e, view)
  \/ CloseModal
  \/ handleEscalationReply
  \/ handleCloseEscalation

SpecEscalation == InitEscalation /\ [][NextEscalation]_vars


\* ------------------------------------------------------------- inventory
\* the statuses the items of the model take: one that completes nothing, one
\* that completes an augmenting task, one that completes both kinds
ItemStatuses == {"ASSIGNED_QA", "AUGMENTED", "QA_COMPLETE"}

\* storageService.updateInventoryItems: item it of the file gets status st
handleInventoryItemsUpdate(it, st) ==
  /\ Has(dbInventories, FileId)
  /\ it \in DOMAIN dbInventories[FileId]
  /\ dbInventories[FileId][it] # st
  /\ dbInventories' = [dbInventories EXCEPT ![FileId][it] = st]
  /\ lastOp' = Op("InventoryItemsUpdate")
  /\ UNCHANGED <<dbTasks, dbEscalations, dbInvoices, localVars, refVars,
                 currentUser, uiVars, notifOut, autoOut, logVars>>

handleInventoryDelete ==
  /\ Has(dbInventories, FileId)
  /\ dbInventories' = Delete(dbInventories, FileId)
  /\ lastOp' = Op("InventoryDelete")
  /\ UNCHANGED <<dbTasks, dbEscalations, dbInvoices, localVars, refVars,
                 currentUser, uiVars, notifOut, autoOut, logVars>>

\* what a task made by the inventory workflow may reference: items of the
\* file, no item, or an item the file does not hold
ItemRefs == SUBSET ItemIds \cup {{MaxItems + 1}}

\* storage contents for one escalation on task t raised by its assignee a:
\* none, open without reply, answered, closed
EscalationCases(t, a) ==
  {Empty}
  \cup {[e \in {1} |-> [taskId |-> t, agentId |-> a, history |-> h, status |-> st]] :
          <<h, st>> \in {<<<<a>>, "PENDING">>, <<<<a, "m1">>, "RESPONDED">>,
                          <<<<a, "m1">>, "CLOSED">>}}

\* a stored session of the manager or of an agent; storage holding an inventory
\* file with unfinished items, one task per agent made from it (or a plain
\* task), and at most one escalation on the first task
InitAutoComplete ==
  /\ \E u \in {"m1", "a1"} : AppInit(u)
  /\ dbInventories = [f \in {FileId} |-> [it \in ItemIds |-> "ASSIGNED_QA"]]
  /\ dbEscalations \in EscalationCases(<<"t", 1>>, "a1")
  /\ \E type \in {"QA", "AUGMENTING"}, file \in {FileId, None}, refs \in ItemRefs :
        /\ file = None => refs = {}
        /\ dbTasks = [id \in UserTaskIds |->
                        [MkTask("IN_PROGRESS", type, Assignee(id[2]), file, refs)
                           EXCEPT !.isEscalated = hasActiveEscalation(dbEscalations, id)]]
  /\ dbInvoices = Empty

NextAutoComplete ==
  \/ DeliverTasks
  \/ DeliverInventories
  \/ DeliverEscalations
  \/ \E it \in ItemIds, st \in ItemStatuses : handleInventoryItemsUpdate(it, st)
  \/ handleInventoryDelete

SpecAutoComplete == InitAutoComplete /\ [][NextAutoComplete]_vars

\* --------------------------------------------------------------- invoices
isFinalized(invoice) == invoice.status = "COMPLETED" \/ invoice.status = "UPLOADED"

\* the due dates a manager types; None is the empty date input
DueDates == {None, "d1"}

\* the manager's "New Invoice Slot" form, with or without an agent chosen and
\* a due date typed; the companion task gets a date of its own without one
handleAddInvoice(assignee, dueDate) ==
  /\ Role(currentUser) = "MANAGER"
  /\ created.inv < MaxInv
  /\ LET id == created.inv + 1 IN
       /\ dbInvoices' = Upsert(dbInvoices, id,
                          [status |-> "PENDING", assigneeId |-> assignee,
                           finalCsvFile |-> FALSE, dueDate |-> dueDate])
       /\ dbTasks' = Insert(dbTasks, CompanionId(id),
                        [MkTask("TODO", "INVOICE_PROCESSING", assignee, None, {})
                           EXCEPT !.dueDate = IF dueDate # None THEN dueDate ELSE @])
  /\ created' = [created EXCEPT !.inv = @ + 1]
  /\ lastOp' = Op("AddInvoice")
  /\ UNCHANGED <<dbEscalations, dbInventories, localVars, refVars, currentUser,
                 uiVars, notifOut, autoOut, issued>>

\* the invoice update crosses into COMPLETED, as the handler sees it in its
\* own invoice collection
completedEdge(i, id, updatedInvoice) ==
  (~Has(i, id) \/ i[id].status # "COMPLETED") /\ updatedInvoice.status = "COMPLETED"

\* linkedTaskWrite that leaves the status of the companion task as it is
linkedTaskWrite_KeepsStatus(t, id, updatedInvoice) ==
  IF Has(t, CompanionId(id))
  THEN [x \in {CompanionId(id)} |->
          [t[CompanionId(id)] EXCEPT
             !.assigneeId = IF updatedInvoice.assigneeId # None
                            THEN updatedInvoice.assigneeId ELSE @,
             !.dueDate = IF updatedInvoice.dueDate # None
                         THEN updatedInvoice.dueDate ELSE @]]
  ELSE Empty

linkedTaskWrite(t, id, updatedInvoice) ==
  IF Has(t, CompanionId(id))
  THEN [x \in {CompanionId(id)} |->
          [t[CompanionId(id)] EXCEPT
             !.assigneeId = IF updatedInvoice.assigneeId # None
                            THEN updatedInvoice.assigneeId ELSE @,
             !.dueDate = IF updatedInvoice.dueDate # None
                         THEN updatedInvoice.dueDate ELSE @,
             !.status = IF isFinalized(updatedInvoice) THEN "DONE" ELSE @]]
  ELSE Empty

mgrTaskWrite(t, id, updatedInvoice) ==
  IF updatedInvoice.status = "UPLOADED" /\ Has(t, ManagerTaskId(id))
  THEN [x \in {ManagerTaskId(id)} |->
          [t[ManagerTaskId(id)] EXCEPT !.status = "DONE", !.completedAt = TRUE]]
  ELSE Empty

\* the writes of the handler for invoice id updated to record updatedInvoice
handleUpdateInvoice(id, updatedInvoice) ==
  /\ dbInvoices' = Upsert(dbInvoices, id, updatedInvoice)
  /\ LET synced == UpsertAll(dbTasks, linkedTaskWrite(tasks, id, updatedInvoice))
         withMgr == IF completedEdge(invoices, id, updatedInvoice)
                    THEN Insert(synced, ManagerTaskId(id),
                           MkTask("TODO", "INVOICE_PROCESSING", "m1", None, {}))
                    ELSE synced
     IN dbTasks' = UpsertAll(withMgr, mgrTaskWrite(tasks, id, updatedInvoice))
  /\ issued' = IF completedEdge(invoices, id, updatedInvoice) /\ issued[id] < MaxIssued
               THEN [issued EXCEPT ![id] = @ + 1] ELSE issued
  /\ UNCHANGED <<dbEscalations, dbInventories, localVars, refVars, currentUser,
                 modal, notifOut, autoOut, created>>

\* the manager's assignment select of the invoice card, with the due date of
\* the card's date input
handleAssignChange(id, assigneeId, dueDate) ==
  /\ Role(currentUser) = "MANAGER"
  /\ Has(invoices, id)
  /\ ~isFinalized(invoices[id])
  /\ handleUpdateInvoice(id, [invoices[id] EXCEPT !.assigneeId = assigneeId,
                                                  !.dueDate = dueDate,
                                                  !.status = "ASSIGNED"])
  /\ lastOp' = Op("AssignChange")
  /\ UNCHANGED agentUploads

\* the manager's "Confirm Upload to Beam"
ConfirmUpload(id) ==
  /\ Role(currentUser) = "MANAGER"
  /\ Has(invoices, id)
  /\ invoices[id].status = "COMPLETED"
  /\ handleUpdateInvoice(id, [invoices[id] EXCEPT !.status = "UPLOADED"])
  /\ lastOp' = Op("ConfirmUpload")
  /\ UNCHANGED agentUploads

\* the card an agent gets for an invoice assigned to that agent, with the
\* upload controls while the invoice is not finalized
agentCanSubmit(u, i, id) ==
  /\ Role(u) = "AGENT"
  /\ Has(i, id)
  /\ i[id].assigneeId = u
  /\ ~isFinalized(i[id])

handleAgentFileSelect(id) ==
  /\ agentCanSubmit(currentUser, invoices, id)
  /\ id \notin agentUploads
  /\ agentUploads' = agentUploads \cup {id}
  /\ lastOp' = Op("AgentFileSelect")
  /\ UNCHANGED <<dbVars, localVars, refVars, currentUser, modal, notifOut,
                 autoOut, logVars>>

\* handleMarkComplete without the test that a final file is there
handleMarkComplete_NoFileTest(id) ==
  /\ agentCanSubmit(currentUser, invoices, id)
  /\ handleUpdateInvoice(id, [invoices[id] EXCEPT
                                !.status = "COMPLETED",
                                !.finalCsvFile = (id \in agentUploads \/ @)])
  /\ agentUploads' = agentUploads \ {id}
  /\ lastOp' = Op("MarkComplete")

\* "Submit & Complete": refused without a final file, otherwise the invoice is
\* written as COMPLETED, with the selected file when there is one
handleMarkComplete(id) ==
  /\ agentCanSubmit(currentUser, invoices, id)
  /\ IF id \notin agentUploads /\ ~invoices[id].finalCsvFile
     THEN /\ lastOp' = Op("MarkCompleteRejected")
          /\ UNCHANGED <<dbVars, localVars, refVars, currentUser, uiVars,
                         notifOut, autoOut, logVars>>
     ELSE /\ handleUpdateInvoice(id, [invoices[id] EXCEPT !.status = "COMPLETED",
                                                          !.finalCsvFile = TRUE])
          /\ agentUploads' = agentUploads \ {id}
          /\ lastOp' = Op("MarkComplete")

handleDeleteInvoice(id) ==
  /\ Role(currentUser) = "MANAGER"
  /\ Has(invoices, id)
  /\ dbInvoices' = Delete(dbInvoices, id)
  /\ dbTasks' = LET t1 == IF Has(tasks, CompanionId(id))
                          THEN Delete(dbTasks, CompanionId(id)) ELSE dbTasks
                IN IF Has(tasks, ManagerTaskId(id))
                   THEN Delete(t1, ManagerTaskId(id)) ELSE t1
  /\ lastOp' = Op("DeleteInvoice")
  /\ UNCHANGED <<dbEscalations, dbInventories, localVars, refVars, currentUser,
                 uiVars, notifOut, autoOut, logVars>>

\* empty storage; the manager makes the invoices
InitInvoice ==
  /\ AppInit(None)
  /\ dbTasks = Empty
  /\ dbEscalations = Empty
  /\ dbInvoices = Empty
  /\ dbInventories = Empty

NextInvoice ==
  \/ DeliverTasks
  \/ DeliverInvoices
  \/ \E u \in {"m1", "a1"} : handleLoginSuccess(u)
  \/ handleLogout
  \/ \E a \in {"a1", None}, due \in DueDates : handleAddInvoice(a, due)
  \/ \E id \in InvIds, due \in DueDates : handleAssignChange(id, "a1", due)
  \/ \E id \in InvIds : ConfirmUpload(id)
  \/ \E id \in InvIds : handleAgentFileSelect(id)
  \/ \E id \in InvIds : handleMarkComplete(id)
  \/ \E id \in InvIds : handleDeleteInvoice(id)

SpecInvoice == InitInvoice /\ [][NextInvoice]_vars

\* ----------------------------------------------------------- task status
isAutomatedTask(type) == type = "AUGMENTING" \/ type = "QA"

\* the task board's handleStatusChange on the selected task, which is the
\* copy of the task collection; a note, when given, is put on the task in the
\* same write
boardStatusWrite(t, status, note) ==
  /\ dbTasks' = Upsert(dbTasks, t,
                  [tasks[t] EXCEPT !.status = status,
                                   !.notes = IF note THEN @ + 1 ELSE @])
  /\ UNCHANGED <<dbEscalations, dbInvoices, dbInventories, localVars, refVars,
                 currentUser, uiVars, notifOut, autoOut, logVars>>

\* the status select of the task detail panel: every status is an option
boardStatusSelect(t, status) ==
  /\ currentUser # None
  /\ Has(tasks, t)
  /\ canEditTask(currentUser, tasks[t])
  /\ ~(tasks[t].status = "DONE" /\ isAutomatedTask(tasks[t].type))
  /\ status # tasks[t].status
  /\ boardStatusWrite(t, status, FALSE)
  /\ lastOp' = Op("BoardStatusSelect")

\* the "Mark Complete" button
boardMarkComplete(t) ==
  /\ currentUser # None
  /\ Has(tasks, t)
  /\ canEditTask(currentUser, tasks[t])
  /\ tasks[t].status = "IN_PROGRESS"
  /\ ~isAutomatedTask(tasks[t].type)
  /\ tasks[t].type # "INVOICE_PROCESSING"
  /\ ~hasActiveEscalation(escalations, t)
  /\ boardStatusWrite(t, "DONE", FALSE)
  /\ lastOp' = Op("BoardMarkComplete")

\* the "Start Working" button
boardStartWorking(t) ==
  /\ currentUser # None
  /\ Has(tasks, t)
  /\ canEditTask(currentUser, tasks[t])
  /\ tasks[t].status = "TODO"
  /\ boardStatusWrite(t, "IN_PROGRESS", FALSE)
  /\ lastOp' = Op("BoardStartWorking")

\* the hold controls: the "Hold" button acts only on a non-empty reason, the
\* Enter key of the reason input on whatever the input holds
boardHold(t, key, reason) ==
  /\ currentUser # None
  /\ Has(tasks, t)
  /\ canEditTask(currentUser, tasks[t])
  /\ tasks[t].status # "DONE"
  /\ key = "button" => reason
  /\ reason => tasks[t].notes < MaxNotes
  /\ boardStatusWrite(t, "ON_HOLD", reason)
  /\ lastOp' = Op("BoardHold")

\* the rows of the dashboard tracker leave out the manager's upload tasks
trackerRow(t) == Has(tasks, t) /\ t \notin {ManagerTaskId(i) : i \in InvIds}

\* the status select of a tracker row, shown to every user of the dashboard
trackerStatusChange(t, status) ==
  /\ currentUser # None
  /\ trackerRow(t)
  /\ tasks[t].status # status
  /\ dbTasks' = Upsert(dbTasks, t, [tasks[t] EXCEPT !.status = status])
  /\ lastOp' = Op("TrackerStatusChange")
  /\ UNCHANGED <<dbEscalations, dbInvoices, dbInventories, localVars, refVars,
                 currentUser, uiVars, notifOut, autoOut, logVars>>

\* the assignee select of a tracker row
trackerAssigneeChange(t, assigneeId) ==
  /\ currentUser # None
  /\ trackerRow(t)
  /\ tasks[t].assigneeId # assigneeId
  /\ dbTasks' = Upsert(dbTasks, t, [tasks[t] EXCEPT !.assigneeId = assigneeId])
  /\ lastOp' = Op("TrackerAssigneeChange")
  /\ UNCHANGED <<dbEscalations, dbInvoices, dbInventories, localVars, refVars,
                 currentUser, uiVars, notifOut, autoOut, logVars>>

\* the types of the tasks of the status model: one automated, one not
StatusTypes == {"QA", "404_CHECK"}

\* storage holding one task not started, assigned to agent a1, automated or
\* not, the automated one linked to an item of an inventory file that is
\* QA_COMPLETE; the task with or without an open escalation of a1
InitTaskStatus ==
  /\ AppInit(None)
  /\ dbEscalations \in {Empty, [e \in {1} |-> [taskId |-> <<"t", 1>>, agentId |-> "a1",
                                               history |-> <<"a1">>, status |-> "PENDING"]]}
  /\ \E type \in StatusTypes :
        dbTasks = [id \in {<<"t", 1>>} |->
                     [MkTask("TODO", type, "a1",
                             IF isAutomatedTask(type) THEN FileId ELSE None,
                             IF isAutomatedTask(type) THEN {1} ELSE {})
                        EXCEPT !.isEscalated = hasActiveEscalation(dbEscalations, id)]]
  /\ dbInvoices = Empty
  /\ dbInventories = [f \in {FileId} |-> [it \in {1} |-> "QA_COMPLETE"]]

NextTaskStatus ==
  \/ DeliverTasks
  \/ DeliverInventories
  \/ DeliverEscalations
  \/ \E u \in Users : handleLoginSuccess(u)
  \/ handleLogout
  \/ \E t \in UserTaskIds, s \in TaskStatus : boardStatusSelect(t, s)
  \/ \E t \in UserTaskIds : boardMarkComplete(t)
  \/ \E t \in UserTaskIds : boardStartWorking(t)
  \/ \E t \in UserTaskIds, key \in {"button", "enter"}, reason \in BOOLEAN :
        boardHold(t, key, reason)
  \/ \E t \in UserTaskIds, s \in TaskStatus : trackerStatusChange(t, s)
  \/ \E t \in UserTaskIds : trackerAssigneeChange(t, "a2")

SpecTaskStatus == InitTaskStatus /\ [][NextTaskStatus]_vars


\* storage holding the first invoice slot as the manager's form made it, with
\* its companion task; no further slot is made
InitInvoiceSync ==
  /\ AppInit(None)
  /\ \E a \in {"a1", None}, due \in DueDates :
        /\ dbInvoices = [i \in {1} |-> [status |-> "PENDING", assigneeId |-> a,
                                        finalCsvFile |-> FALSE, dueDate |-> due]]
        /\ dbTasks = [t \in {CompanionId(1)} |->
                        [MkTask("TODO", "INVOICE_PROCESSING", a, None, {})
                           EXCEPT !.dueDate = IF due # None THEN due ELSE @]]
  /\ dbEscalations = Empty
  /\ dbInventories = Empty

NextInvoiceSync ==
  \/ DeliverTasks
  \/ DeliverInvoices
  \/ \E u \in {"m1", "a1"} : handleLoginSuccess(u)
  \/ handleLogout
  \/ \E id \in InvIds, due \in DueDates : handleAssignChange(id, "a1", due)
  \/ \E id \in InvIds : ConfirmUpload(id)
  \/ \E id \in InvIds : handleAgentFileSelect(id)
  \/ \E id \in InvIds : handleMarkComplete(id)
  \/ \E id \in InvIds : trackerAssigneeChange(CompanionId(id), "a2")

SpecInvoiceSync == InitInvoiceSync /\ [][NextInvoiceSync]_vars

\* ------------------------------------------------- replies, two sessions
\* handleEscalationReply run in the session of another user u, on that
\* session's copy of escalation e, which is the stored record
otherSessionReply(u, e) ==
  /\ u # currentUser
  /\ Has(dbEscalations, e)
  /\ dbEscalations[e].status # "CLOSED"
  /\ Len(dbEscalations[e].history) < MaxHist
  /\ dbEscalations' = Upsert(dbEscalations, e,
                        [dbEscalations[e] EXCEPT !.history = Append(@, u),
                                                 !.status = newStatus(u)])
  /\ lastOp' = Op("OtherSessionReply")
  /\ UNCHANGED <<dbTasks, dbInvoices, dbInventories, localVars, refVars,
                 currentUser, uiVars, notifOut, autoOut, logVars>>

\* handleCloseEscalation run in the session of another user u, whose copies
\* of escalation e and of its task are the stored records
otherSessionClose(u, e) ==
  /\ u # currentUser
  /\ Has(dbEscalations, e)
  /\ canResolveClose(u, dbEscalations[e])
  /\ dbEscalations' = Upsert(dbEscalations, e,
                        [dbEscalations[e] EXCEPT !.status = "CLOSED"])
  /\ dbTasks' = UpsertAll(dbTasks, closeTaskWrites(dbTasks, dbEscalations[e]))
  /\ lastOp' = Op("OtherSessionClose")
  /\ UNCHANGED <<dbInvoices, dbInventories, localVars, refVars, currentUser,
                 uiVars, notifOut, autoOut, logVars>>

\* storage holding one task of agent a1 and the escalation a1 has just raised
\* on it
InitReply ==
  /\ AppInit(None)
  /\ dbTasks = [id \in {<<"t", 1>>} |->
                  [MkTask("IN_PROGRESS", "404_CHECK", "a1", None, {})
                     EXCEPT !.isEscalated = TRUE]]
  /\ dbEscalations = [e \in {1} |-> [taskId |-> <<"t", 1>>, agentId |-> "a1",
                                     history |-> <<"a1">>, status |-> "PENDING"]]
  /\ dbInvoices = Empty
  /\ dbInventories = Empty

NextReply ==
  \/ DeliverTasks
  \/ DeliverEscalations
  \/ \E u \in Users : handleLoginSuccess(u)
  \/ handleLogout
  \/ \E e \in EscIds, view \in {"board", "dashboard"} : OpenEscalation(e, view)
  \/ CloseModal
  \/ handleEscalationReply
  \/ handleCloseEscalation
  \/ \E u \in Users, e \in EscIds : otherSessionReply(u, e)
  \/ \E u \in Users, e \in EscIds : otherSessionClose(u, e)

SpecReply == InitReply /\ [][NextReply]_vars

\* storage holding an invoice slot assigned to agent a1 with its companion
\* task, the agent's work not finished and no escalation yet
InitInvoiceEscalation ==
  /\ AppInit(None)
  /\ \E st \in {"PENDING", "ASSIGNED"} :
        dbInvoices = [i \in {1} |-> [status |-> st, assigneeId |-> "a1",
                                     finalCsvFile |-> FALSE, dueDate |-> "d1"]]
  /\ dbTasks = [t \in {CompanionId(1)} |->
                  [MkTask("TODO", "INVOICE_PROCESSING", "a1", None, {})
                     EXCEPT !.dueDate = "d1"]]
  /\ dbEscalations = Empty
  /\ dbInventories = Empty

NextInvoiceEscalation ==
  \/ DeliverTasks
  \/ DeliverInvoices
  \/ DeliverEscalations
  \/ \E u \in {"m1", "a1"} : handleLoginSuccess(u)
  \/ handleLogout
  \/ \E id \in InvIds : handleEscalateTask(CompanionId(id))
  \/ \E id \in InvIds : handleAgentFileSelect(id)
  \/ \E id \in InvIds : handleMarkComplete(id)
  \/ \E id \in InvIds : ConfirmUpload(id)

SpecInvoiceEscalation == InitInvoiceEscalation /\ [][NextInvoiceEscalation]_vars

\* ------------------------------------------------------------------ claims
NotifOps == {"DeliverTasks", "DeliverInvoices", "DeliverEscalations", "Login", "Logout"}
AutoOps == {"DeliverTasks", "DeliverInventories", "DeliverEscalations"}

\* C1: in every reachable state a stored task has isEscalated = TRUE iff at
\* least one non-CLOSED stored escalation references it, also right after one
\* escalation of the task is closed while another is still open.
C1_IsEscalatedConsistent ==
  \A t \in DOMAIN dbTasks :
     dbTasks[t].isEscalated <=> hasActiveEscalation(dbEscalations, t)

NewEscalationInCycle(e) ==
  /\ lastOp'.op \in NotifOps
  /\ ~isFirstLoad
  /\ currentUser' # None
  /\ Has(escalations', e)
  /\ ~Has(prevEscalationsRef, e)

C10_OnlyRaiserCloses ==
  [][ \A e \in DOMAIN dbEscalations :
        (dbEscalations[e].status # "CLOSED" /\ dbEscalations'[e].status = "CLOSED")
           => currentUser = dbEscalations[e].agentId
    ]_vars


\* the items of the referenced file that task names, and their statuses, read
\* from inventory collection inv
Gathered(inv, task) ==
  IF task.inventoryFileId \in DOMAIN inv
  THEN DOMAIN inv[task.inventoryFileId] \cap task.inventoryItemIds
  ELSE {}

GatheredAll(inv, task, statuses) ==
  \A it \in Gathered(inv, task) : inv[task.inventoryFileId][it] \in statuses

OpenEscalationOn(e, t) ==
  \E x \in DOMAIN e : e[x].taskId = t /\ e[x].status \in {"PENDING", "RESPONDED"}

\* C2: a run of the completion effect writes no task as DONE, and leaves its
\* stored record alone, when the escalation collection of that run holds a
\* non-CLOSED escalation of the task, whatever the statuses of its items.
C2_EscalationGuard ==
  [][ lastOp'.op \in AutoOps =>
        \A t \in DOMAIN tasks' :
           OpenEscalationOn(escalations', t) =>
              /\ t \notin autoOut'
              /\ Has(dbTasks, t) => dbTasks'[t] = dbTasks[t]
    ]_vars

\* Scenario B: the effect has run on a QA task in progress whose items are all
\* QA_COMPLETE and which has an open escalation, and the task is still in
\* progress in storage
C2_Witness_ScenarioB ==
  \E t \in DOMAIN tasks :
     /\ lastOp.op \in AutoOps
     /\ tasks[t].type = "QA" /\ tasks[t].status = "IN_PROGRESS"
     /\ Gathered(inventories, tasks[t]) = ItemIds
     /\ GatheredAll(inventories, tasks[t], {"QA_COMPLETE"})
     /\ OpenEscalationOn(escalations, t)
     /\ t \notin autoOut
     /\ dbTasks[t].status = "IN_PROGRESS"

\* C3: after a run of the completion effect, every QA task of the task
\* collection that is not DONE there, whose referenced items resolve to a
\* non-empty set all QA_COMPLETE and which no non-CLOSED escalation of the
\* escalation collection references, is DONE in storage with completedAt set.
C3_AutoCompleteQA ==
  lastOp.op \in AutoOps =>
    \A t \in DOMAIN tasks :
       (/\ tasks[t].type = "QA"
        /\ tasks[t].status # "DONE"
        /\ Gathered(inventories, tasks[t]) # {}
        /\ GatheredAll(inventories, tasks[t], {"QA_COMPLETE"})
        /\ ~OpenEscalationOn(escalations, t))
       => /\ t \in autoOut
          /\ dbTasks[t].status = "DONE"
          /\ dbTasks[t].completedAt

\* Scenario A: a QA task in progress with two items, both QA_COMPLETE, and no
\* escalation at all, is DONE in storage after the run
C3_Witness_ScenarioA ==
  \E t \in DOMAIN tasks :
     /\ lastOp.op \in AutoOps
     /\ tasks[t].type = "QA" /\ tasks[t].status = "IN_PROGRESS"
     /\ Cardinality(Gathered(inventories, tasks[t])) = 2
     /\ GatheredAll(inventories, tasks[t], {"QA_COMPLETE"})
     /\ escalations = Empty
     /\ dbTasks[t].status = "DONE" /\ dbTasks[t].completedAt

\* what has to hold of a task for the completion effect to write it as DONE
C4_Guards(task, inv) ==
  /\ task.status # "DONE"
  /\ task.inventoryFileId # None
  /\ task.inventoryItemIds # {}
  /\ task.inventoryFileId \in DOMAIN inv
  /\ Gathered(inv, task) # {}
  /\ task.type = "QA" => GatheredAll(inv, task, {"QA_COMPLETE"})
  /\ task.type # "QA" => GatheredAll(inv, task, {"AUGMENTED", "QA_COMPLETE"})

\* C4: a run of the completion effect writes a task as DONE only if the task
\* is not DONE in the task collection, names a file and items, the file is in
\* the inventory collection, the gathered item set is not empty and every
\* gathered item is QA_COMPLETE for a QA task, AUGMENTED or QA_COMPLETE for any
\* other; the stored record of every other task is left as it was.
C4_WriteOnlyIfGuards ==
  [][ lastOp'.op \in AutoOps =>
        /\ \A t \in autoOut' : Has(tasks', t) /\ C4_Guards(tasks'[t], inventories')
        /\ \A t \in DOMAIN dbTasks' :
              t \notin autoOut' => (Has(dbTasks, t) /\ dbTasks'[t] = dbTasks[t])
    ]_vars

\* the effect has completed an augmenting task one of whose items is AUGMENTED
C4_Witness_Augmenting ==
  \E t \in autoOut :
     /\ lastOp.op \in AutoOps
     /\ tasks[t].type = "AUGMENTING"
     /\ \E it \in Gathered(inventories, tasks[t]) :
           inventories[tasks[t].inventoryFileId][it] = "AUGMENTED"
     /\ dbTasks[t].status = "DONE"

\* C5: the run of the notification effect that takes the first non-empty
\* snapshot (it ends the first load) emits no notification and forwards
\* nothing to the Alert Channel, whoever the viewer and whatever the snapshot.
C5_ColdStartSilent ==
  [][ (isFirstLoad /\ ~isFirstLoad') =>
        (notifOut'.notifs = {} /\ notifOut'.slack = {}) ]_vars

\* the baseline run has just happened for a logged-in viewer on a snapshot
\* with a task of that viewer's audience and an escalation
C5_Witness_Baseline ==
  /\ notifOut.baseline
  /\ notifOut.viewer \in Users
  /\ \E t \in DOMAIN prevTasksRef : IsAudience(notifOut.viewer, prevTasksRef[t].assigneeId)
  /\ \E e \in DOMAIN prevEscalationsRef : EscalationAudience(notifOut.viewer, prevEscalationsRef[e])

CycleCommands == IF lastOp.op \in AutoOps THEN autoOut ELSE {}

\* C6: a cycle that runs right after another on the same collections and for
\* the same viewer emits no notification, forwards nothing and issues no
\* command to storage.
C6_Idempotent ==
  [][ (/\ lastOp.op \in NotifOps \cup AutoOps
       /\ lastOp'.op \in NotifOps \cup AutoOps
       /\ <<tasks, inventories, invoices, escalations, currentUser>>'
             = <<tasks, inventories, invoices, escalations, currentUser>>)
      => /\ notifOut'.notifs = {}
         /\ notifOut'.slack = {}
         /\ CycleCommands' = {}
    ]_vars


\* C7: over the lifetime of an invoice at most one creation of its
\* manager-review task is issued, and only by an update that finds the invoice
\* not COMPLETED and writes it COMPLETED.
C7_OneManagerTaskIssued ==
  \A id \in InvIds : issued[id] <= 1


\* the operations by which a user sets the status of a task
UserStatusOps ==
  {"BoardStatusSelect", "BoardMarkComplete", "BoardStartWorking", "BoardHold",
   "TrackerStatusChange"}

\* stored task t goes from another status to status st in this step
BecomesStatus(t, st) ==
  /\ Has(dbTasks, t) /\ Has(dbTasks', t)
  /\ dbTasks[t].status # st
  /\ dbTasks'[t].status = st

\* C11: a stored task of type AUGMENTING or QA becomes DONE only by the write
\* of the completion effect, never by a status control of a user.
C11_AutomatedDoneOnlyByRule ==
  [][ \A t \in TaskIds :
        (BecomesStatus(t, "DONE") /\ dbTasks[t].type \in {"AUGMENTING", "QA"})
           => (lastOp'.op \in AutoOps /\ t \in autoOut')
    ]_vars

\* C12: a status control of a user makes a stored task DONE only when the
\* escalation collection of the session holds no non-CLOSED escalation of the
\* task.
C12_NoDirectDoneWhileEscalated ==
  [][ \A t \in TaskIds :
        (lastOp'.op \in UserStatusOps /\ BecomesStatus(t, "DONE"))
           => ~OpenEscalationOn(escalations, t)
    ]_vars

\* C13: a stored task that is DONE stays DONE, whatever operation follows.
C13_DoneIsTerminal ==
  [][ \A t \in TaskIds :
        (Has(dbTasks, t) /\ Has(dbTasks', t) /\ dbTasks[t].status = "DONE")
           => dbTasks'[t].status = "DONE"
    ]_vars

\* C14: the write that puts a stored task ON_HOLD adds a reason note to the
\* notes of the task.
C14_HoldNeedsReason ==
  [][ \A t \in TaskIds :
        BecomesStatus(t, "ON_HOLD") => dbTasks'[t].notes > dbTasks[t].notes
    ]_vars

\* C15: a status control of a user changes the status of a stored task only
\* when the acting user has the Manager role or is the assignee of the task,
\* in storage or in the session's copy.
C15_StatusChangeAuthorized ==
  [][ \A t \in TaskIds :
        (/\ lastOp'.op \in UserStatusOps
         /\ Has(dbTasks, t) /\ Has(dbTasks', t)
         /\ dbTasks'[t].status # dbTasks[t].status)
        => \/ Role(currentUser) = "MANAGER"
           \/ dbTasks[t].assigneeId = currentUser
           \/ (Has(tasks, t) /\ tasks[t].assigneeId = currentUser)
    ]_vars


\* the reply of this step is one the claim speaks of: a Manager's on a stored
\* PENDING escalation or an Agent's on a stored escalation that is not CLOSED
C16_Covered(old) ==
  \/ Role(currentUser) = "MANAGER" /\ old.status = "PENDING"
  \/ Role(currentUser) = "AGENT" /\ old.status # "CLOSED"

\* C16: a reply of a Manager makes a stored PENDING escalation RESPONDED, a
\* reply of an Agent makes a stored non-CLOSED escalation PENDING; the reply
\* appends one message, the replier's, to the stored history of that
\* escalation, and changes no other escalation and no task.
C16_ReplyTransitions ==
  [][ (lastOp'.op = "EscalationReply" /\ Has(dbEscalations, modal[1].id)
         /\ C16_Covered(dbEscalations[modal[1].id]))
      => /\ dbEscalations'[modal[1].id].status
              = (IF Role(currentUser) = "MANAGER" THEN "RESPONDED" ELSE "PENDING")
         /\ dbEscalations'[modal[1].id].history
              = Append(dbEscalations[modal[1].id].history, currentUser)
         /\ \A e \in DOMAIN dbEscalations \ {modal[1].id} :
               Has(dbEscalations', e) /\ dbEscalations'[e] = dbEscalations[e]
         /\ dbTasks' = dbTasks
    ]_vars

\* C17: a stored escalation that is CLOSED stays CLOSED, whatever operation of
\* whatever session follows.
C17_ClosedIsTerminal ==
  [][ \A e \in EscIds :
        (Has(dbEscalations, e) /\ dbEscalations[e].status = "CLOSED")
           => (Has(dbEscalations', e) /\ dbEscalations'[e].status = "CLOSED")
    ]_vars


\* stored invoice id goes from another status to COMPLETED in this step
BecomesCompleted(id) ==
  /\ Has(dbInvoices, id) /\ Has(dbInvoices', id)
  /\ dbInvoices[id].status # "COMPLETED"
  /\ dbInvoices'[id].status = "COMPLETED"

\* C18: a stored invoice that becomes COMPLETED was ASSIGNED just before, also
\* one made with an agent already chosen.
C18_CompletedFromAssigned ==
  [][ \A id \in InvIds :
        BecomesCompleted(id) => dbInvoices[id].status = "ASSIGNED" ]_vars

\* C19: a stored invoice becomes COMPLETED only by a request that has a final
\* file, selected or already on the invoice; a request without one writes
\* nothing; so every stored invoice that is COMPLETED or UPLOADED has its
\* finalCsvFile.
C19_CompletedHasFinalFile ==
  [][ /\ \A id \in DOMAIN dbInvoices' :
           dbInvoices'[id].status \in {"COMPLETED", "UPLOADED"}
              => dbInvoices'[id].finalCsvFile
      /\ \A id \in InvIds :
           BecomesCompleted(id)
              => (id \in agentUploads \/ (Has(invoices, id) /\ invoices[id].finalCsvFile))
      /\ lastOp'.op = "MarkCompleteRejected"
           => (dbInvoices' = dbInvoices /\ dbTasks' = dbTasks)
    ]_vars

\* the assigned agent has asked to complete an invoice without a final file:
\* the stored invoice is still not completed and has no final file
C19_Witness_Rejected ==
  \E id \in DOMAIN dbInvoices :
     /\ lastOp.op = "MarkCompleteRejected"
     /\ dbInvoices[id].assigneeId = currentUser
     /\ dbInvoices[id].status = "ASSIGNED"
     /\ ~dbInvoices[id].finalCsvFile
     /\ id \notin agentUploads

\* the operations that update an invoice
InvoiceUpdateOps == {"AssignChange", "ConfirmUpload", "MarkComplete"}

OwnedTasks(id) == {CompanionId(id), ManagerTaskId(id)}

\* C21: the delete of a stored invoice leaves no task owned by that invoice in
\* storage, and leaves every other task and every other invoice as it was.
C21_DeleteCascades ==
  [][ \A id \in InvIds :
        (lastOp'.op = "DeleteInvoice" /\ Has(dbInvoices, id) /\ ~Has(dbInvoices', id))
        => /\ DOMAIN dbTasks' \cap OwnedTasks(id) = {}
           /\ \A t \in DOMAIN dbTasks \ OwnedTasks(id) :
                 Has(dbTasks', t) /\ dbTasks'[t] = dbTasks[t]
           /\ \A i \in DOMAIN dbInvoices \ {id} :
                 Has(dbInvoices', i) /\ dbInvoices'[i] = dbInvoices[i]
    ]_vars


\* a cycle of the notification effect that compares, for a logged-in viewer
ComparingCycle ==
  lastOp'.op \in NotifOps /\ ~isFirstLoad /\ notifOut'.viewer # None

TaskTitles == {"New Task Assigned", "Task Completed", "Task Updated"}
InvoiceTitles == {"New Invoice Slot", "Invoice Ready", "Invoice Status"}
AssigneeOrManager(u, rec) == rec.assigneeId = u \/ UserRole[u] = "MANAGER"
About(titles, x) == {n \in notifOut'.notifs : n[1] \in titles /\ n[2] = x}

Forwarded(x) == {n \in notifOut'.slack : n[1] = "Invoice Completed" /\ n[2] = x}

\* C23: in a comparing cycle, an invoice that the previous snapshot holds not
\* COMPLETED and the current one COMPLETED gives a manager viewer the one
\* "Invoice Ready" notification, forwarded to the alert channel, and gives any
\* other viewer nothing; an invoice that both snapshots hold COMPLETED gives
\* no notification and no forward.
C23_CompletedEdge ==
  [][ ComparingCycle =>
      LET u == notifOut'.viewer IN
      \A x \in DOMAIN invoices' \cap DOMAIN prevInvoicesRef :
        /\ (prevInvoicesRef[x].status # "COMPLETED" /\ invoices'[x].status = "COMPLETED")
           => IF UserRole[u] = "MANAGER"
              THEN /\ About(InvoiceTitles, x) = {<<"Invoice Ready", x>>}
                   /\ Forwarded(x) = {<<"Invoice Completed", x>>}
              ELSE About(InvoiceTitles, x) = {} /\ Forwarded(x) = {}
        /\ (prevInvoicesRef[x].status = "COMPLETED" /\ invoices'[x].status = "COMPLETED")
           => About(InvoiceTitles, x) = {} /\ Forwarded(x) = {}
    ]_vars

\* the manager as viewer has been told of a completed invoice, with the forward
C23_Witness_ManagerTold ==
  /\ lastOp.op \in NotifOps
  /\ notifOut.viewer = "m1"
  /\ \E x \in DOMAIN invoices :
        /\ invoices[x].status = "COMPLETED"
        /\ <<"Invoice Ready", x>> \in notifOut.notifs
        /\ <<"Invoice Completed", x>> \in notifOut.slack

\* the assignee as viewer has seen their invoice become COMPLETED and was told nothing
C23_Witness_AgentSilent ==
  /\ lastOp.op = "DeliverInvoices"
  /\ notifOut.viewer = "a1"
  /\ notifOut.notifs = {}
  /\ \E x \in DOMAIN invoices :
        invoices[x].status = "COMPLETED" /\ prevInvoicesRef[x].status = "COMPLETED"


\* C24: in a comparing cycle, an escalation whose history is longer than in
\* the previous snapshot gives the viewer a "New Message" notification only
\* if the last message is not the viewer's and the viewer is a manager or the
\* agent who raised the escalation.
C24_NewMessageAudience ==
  [][ ComparingCycle =>
      LET u == notifOut'.viewer IN
      \A x \in DOMAIN escalations' \cap DOMAIN prevEscalationsRef :
        ( /\ Len(escalations'[x].history) > Len(prevEscalationsRef[x].history)
          /\ <<"New Message", x>> \in notifOut'.notifs )
        => /\ escalations'[x].history[Len(escalations'[x].history)] # u
           /\ (UserRole[u] = "MANAGER" \/ escalations'[x].agentId = u)
    ]_vars


IsPrefix(h, g) == Len(h) <= Len(g) /\ \A k \in 1..Len(h) : g[k] = h[k]

\* C26: the stored history of an escalation only grows at its end: every step
\* keeps the messages already stored, in their order, whichever sessions reply
\* to or close the escalation.
C26_HistoryAppendOnly ==
  [][ \A e \in DOMAIN dbEscalations :
        Has(dbEscalations', e)
        /\ IsPrefix(dbEscalations[e].history, dbEscalations'[e].history) ]_vars


\* C27: an invoice update (assignment, agent completion, upload confirmation)
\* never turns a stored task to DONE while storage holds a non-CLOSED
\* escalation that references the task.
C27_EscalationBlocksInvoiceSync ==
  [][ lastOp'.op \in InvoiceUpdateOps =>
      \A t \in DOMAIN dbTasks' :
        ( /\ dbTasks'[t].status = "DONE"
          /\ (Has(dbTasks, t) => dbTasks[t].status # "DONE") )
        => ~ \E e \in DOMAIN dbEscalations :
                dbEscalations[e].taskId = t /\ dbEscalations[e].status # "CLOSED"
    ]_vars


\* C28: every cycle of the notification effect after the baseline, with or
\* without a viewer, ends with the previous snapshot equal to the collections
\* it has just processed.
C28_SnapshotFollows ==
  [][ (lastOp'.op \in NotifOps /\ ~isFirstLoad)
      => /\ prevTasksRef' = tasks'
         /\ prevInvoicesRef' = invoices'
         /\ prevEscalationsRef' = escalations' ]_vars


\* C29: the first delivery of the invoice collection, and of the escalation
\* collection, to a session gives no "created" notification for what it
\* holds.  Stated for a specification whose sessions create no invoice and no
\* escalation, so that every delivered one was in storage before the session.
C29_NoColdStartStorm ==
  [][ /\ (lastOp'.op = "DeliverInvoices" /\ invoices = Empty)
         => \A x \in DOMAIN invoices' : <<"New Invoice Slot", x>> \notin notifOut'.notifs
      /\ (lastOp'.op = "DeliverEscalations" /\ escalations = Empty)
         => \A x \in DOMAIN escalations' : <<"Escalation Raised", x>> \notin notifOut'.notifs
    ]_vars


\* C30: a run of the completion effect writes no task as DONE while storage
\* holds a non-CLOSED escalation of that task, also when the escalation
\* collection has not been delivered to the session yet.
C30_StoredEscalationGuard ==
  [][ lastOp'.op \in AutoOps =>
        \A t \in autoOut' : ~OpenEscalationOn(dbEscalations, t) ]_vars

====
